---- MODULE Spec2Model ----
(***************************************************************************)
(* A model of apply_custom_changes.py: the ISO 6709 coordinate parser      *)
(* (parse_iso6709), the decimal-year conversion (to_year_fraction) and the *)
(* annotation of the Position records of Positions.xml                     *)
(* (modify_positions_xml).                                                  *)
(*                                                                         *)
(* Strings that are parsed are sequences of one-character strings.         *)
(* Python floats are modelled as exact rationals [num, den]; binary        *)
(* rounding of float arithmetic is outside the model.                      *)
(***************************************************************************)
EXTENDS Integers, Sequences, FiniteSets, TLC

VARIABLES
    coord_str,      \* parse_iso6709: the argument
    result,         \* parse_iso6709: the value returned or the exception raised
    date,           \* to_year_fraction: the argument
    tz,             \* to_year_fraction: the local timezone time.mktime uses
    year_fraction,  \* to_year_fraction: the value returned
    file,           \* Positions.xml on disk
    tree,           \* modify_positions_xml: the parsed ElementTree
    all_positions,  \* modify_positions_xml: the elements to annotate, in order
    i,              \* modify_positions_xml: place of the for loop in all_positions
    pc,             \* modify_positions_xml: "start", "loop", "done" or "failed"
    run,            \* how many times the script has been started
    now,            \* the clock: seconds after 2029-12-31 23:59:59 local time
    geo_mag,        \* which declination model stands behind geo_mag.calculate
    calls,          \* per element, the geo_mag.calculate call of this run
    history         \* the documents tree.write has written, oldest first

parseVars == <<coord_str, result>>
yearVars == <<date, tz, year_fraction>>
docVars == <<file, tree, all_positions, i, pc, run, now, geo_mag, calls, history>>
vars == <<coord_str, result, date, tz, year_fraction,
          file, tree, all_positions, i, pc, run, now, geo_mag, calls, history>>

\* Python's None where a string is expected (an unmatched group, a missing
\* attribute), and where a float is expected (no altitude).
None == <<"None">>
NoneFloat == [none |-> TRUE]

(***************************************************************************)
(* Rational arithmetic standing for float arithmetic.                      *)
(***************************************************************************)
Abs(n) == IF n < 0 THEN -n ELSE n

RECURSIVE GCD(_, _)
GCD(a, b) == IF b = 0 THEN a ELSE GCD(b, a % b)

Rat(n, d) == LET g == GCD(Abs(n), d) IN [num |-> n \div g, den |-> d \div g]

RatAdd(a, b) == Rat(a.num * b.den + b.num * a.den, a.den * b.den)

RatDiv(a, k) == Rat(a.num, a.den * k)

RatMul(k, a) == Rat(k * a.num, a.den)

(***************************************************************************)
(* float(str) on the numerals the pattern can capture.                     *)
(***************************************************************************)
Digits == {"0", "1", "2", "3", "4", "5", "6", "7", "8", "9"}
Signs == {"+", "-"}

DigitVal(c) ==
    CASE c = "0" -> 0 [] c = "1" -> 1 [] c = "2" -> 2 [] c = "3" -> 3
      [] c = "4" -> 4 [] c = "5" -> 5 [] c = "6" -> 6 [] c = "7" -> 7
      [] c = "8" -> 8 [] c = "9" -> 9

RECURSIVE IntOf(_)
IntOf(ds) ==
    IF ds = <<>> THEN 0
    ELSE 10 * IntOf(SubSeq(ds, 1, Len(ds) - 1)) + DigitVal(ds[Len(ds)])

RECURSIVE Pow10(_)
Pow10(k) == IF k = 0 THEN 1 ELSE 10 * Pow10(k - 1)

DotAt(cs) == IF \E j \in 1..Len(cs) : cs[j] = "."
             THEN CHOOSE j \in 1..Len(cs) : cs[j] = "."
             ELSE 0

Unsigned(cs) ==
    LET dot == DotAt(cs) IN
    IF dot = 0 THEN Rat(IntOf(cs), 1)
    ELSE Rat(IntOf(SubSeq(cs, 1, dot - 1) \o SubSeq(cs, dot + 1, Len(cs))),
             Pow10(Len(cs) - dot))

float(cs) ==
    IF cs[1] \in Signs
    THEN RatMul(IF cs[1] = "-" THEN -1 ELSE 1, Unsigned(Tail(cs)))
    ELSE Unsigned(cs)

(***************************************************************************)
(* The pattern of parse_iso6709, matched as re.fullmatch matches it: the   *)
(* groups are tried from left to right, every quantifier is greedy and     *)
(* gives characters back on failure of what follows.                       *)
(***************************************************************************)
NoMatch == <<>>

IsDigitAt(s, p) == p >= 1 /\ p <= Len(s) /\ s[p] \in Digits

RECURSIVE DigitRun(_, _)
DigitRun(s, p) == IF IsDigitAt(s, p) THEN 1 + DigitRun(s, p + 1) ELSE 0

\* The positions k..1 past "from", longest first.
RECURSIVE Descending(_, _)
Descending(from, k) ==
    IF k = 0 THEN <<>> ELSE <<from + k>> \o Descending(from, k - 1)

\* (?:\.\d+)? at position q: the positions after it, in the order tried.
FracEnds(s, q) ==
    (IF q <= Len(s) /\ s[q] = "."
     THEN Descending(q + 1, DigitRun(s, q + 1))
     ELSE <<>>) \o <<q>>

\* \d{w}(?:\.\d+)? at position p.
NumEnds(s, p, w) ==
    IF \A j \in p..(p + w - 1) : IsDigitAt(s, j)
    THEN FracEnds(s, p + w)
    ELSE <<>>

RECURSIVE AltIntEnds(_, _, _)
AltIntEnds(s, p, k) ==
    IF k = 0 THEN <<>>
    ELSE FracEnds(s, p + 1 + k) \o AltIntEnds(s, p, k - 1)

\* [+-]\d+(?:\.\d+)? at position p.
AltEnds(s, p) ==
    IF p <= Len(s) /\ s[p] \in Signs
    THEN AltIntEnds(s, p, DigitRun(s, p + 1))
    ELSE <<>>

\* A trailing 0 is the "?" of an optional group taking nothing.
GroupEnds(s, stage, p) ==
    CASE stage = 2 -> NumEnds(s, p, 2)
      [] stage = 3 -> NumEnds(s, p, 2) \o <<0>>
      [] stage = 4 -> NumEnds(s, p, 2) \o <<0>>
      [] stage = 6 -> NumEnds(s, p, 3)
      [] stage = 7 -> NumEnds(s, p, 2) \o <<0>>
      [] stage = 8 -> NumEnds(s, p, 2) \o <<0>>
      [] stage = 9 -> AltEnds(s, p) \o <<0>>

AtEndPrefix(s, p) == TRUE

\* re.fullmatch and "$": the match has to end where the string ends.
AtEnd(s, p) == p = Len(s) + 1

RECURSIVE MatchFrom(_, _, _, _)
RECURSIVE TryEnds(_, _, _, _, _, _)
MatchFrom(s, stage, p, caps) ==
    IF stage = 10 THEN (IF AtEnd(s, p) THEN caps ELSE NoMatch)
    ELSE IF stage \in {1, 5}
         THEN IF p <= Len(s) /\ s[p] \in Signs
              THEN MatchFrom(s, stage + 1, p + 1, Append(caps, <<s[p]>>))
              ELSE NoMatch
         ELSE TryEnds(s, stage, p, caps, GroupEnds(s, stage, p), 1)

TryEnds(s, stage, p, caps, ends, k) ==
    IF k > Len(ends) THEN NoMatch
    ELSE LET e == ends[k]
             r == IF e = 0
                  THEN MatchFrom(s, stage + 1, p, Append(caps, None))
                  ELSE MatchFrom(s, stage + 1, e,
                                 Append(caps, SubSeq(s, p, e - 1)))
         IN  IF r # NoMatch THEN r
             ELSE TryEnds(s, stage, p, caps, ends, k + 1)

re_fullmatch(s) ==
    LET caps == MatchFrom(s, 1, 1, <<>>) IN
    IF caps = NoMatch THEN NoMatch
    ELSE [lat_sign |-> caps[1], lat_deg |-> caps[2], lat_min |-> caps[3],
          lat_sec |-> caps[4], lon_sign |-> caps[5], lon_deg |-> caps[6],
          lon_min |-> caps[7], lon_sec |-> caps[8], alt |-> caps[9]]

(***************************************************************************)
(* parse_iso6709                                                           *)
(***************************************************************************)
ValueError == [raised |-> "ValueError"]
TypeError == [raised |-> "TypeError"]

Raised(r) == "raised" \in DOMAIN r

AxisNoSeconds(sign, deg, min, sec) ==
    IF min # None
    THEN RatMul(sign, RatAdd(float(deg), RatDiv(float(min), 60)))
    ELSE RatMul(sign, float(deg))

\* "latitude = ..." and "longitude = ..." of parse_iso6709.
Axis(sign, deg, min, sec) ==
    IF min # None
    THEN IF sec # None
         THEN RatMul(sign, RatAdd(RatAdd(float(deg), RatDiv(float(min), 60)),
                                  RatDiv(float(sec), 3600)))
         ELSE RatMul(sign, RatAdd(float(deg), RatDiv(float(min), 60)))
    ELSE RatMul(sign, float(deg))

SignOf(g) == IF g = <<"-">> THEN -1 ELSE 1

parse_iso6709(s) ==
    IF s = None THEN TypeError
    ELSE
    LET match == re_fullmatch(s) IN
    IF match = NoMatch THEN ValueError
    ELSE [latitude  |-> Axis(SignOf(match.lat_sign), match.lat_deg,
                             match.lat_min, match.lat_sec),
          longitude |-> Axis(SignOf(match.lon_sign), match.lon_deg,
                             match.lon_min, match.lon_sec),
          altitude  |-> IF match.alt # None THEN float(match.alt)
                                              ELSE NoneFloat]

(***************************************************************************)
(* to_year_fraction.  A datetime is [year, month, day, hour, minute,       *)
(* second]; timetuple() drops the microseconds.  time.mktime reads the     *)
(* tuple as local time: the zone is [std, dst], std the standard offset    *)
(* from UTC in seconds and dst the half of the year with summer time       *)
(* ("none", "north": April to September, "south": October to March).       *)
(* The value returned, year + fraction, is the mixed number                *)
(* whole + num/den with 0 <= num < den.                                    *)
(***************************************************************************)
IsLeap(y) == (y % 4 = 0 /\ y % 100 # 0) \/ y % 400 = 0

LeapsThrough(y) == (y \div 4) - (y \div 100) + (y \div 400)

\* Days from 1970-01-01 to January 1 of year y.
DaysBeforeYear(y) == 365 * (y - 1970) + LeapsThrough(y - 1) - LeapsThrough(1969)

DaysInMonth(y, m) ==
    IF m = 2 THEN (IF IsLeap(y) THEN 29 ELSE 28)
    ELSE IF m \in {4, 6, 9, 11} THEN 30 ELSE 31

RECURSIVE DaysBeforeMonth(_, _)
DaysBeforeMonth(y, m) ==
    IF m = 1 THEN 0 ELSE DaysBeforeMonth(y, m - 1) + DaysInMonth(y, m - 1)

IsDst(zone, d) ==
    CASE zone.dst = "none" -> FALSE
      [] zone.dst = "north" -> d.month \in 4..9
      [] zone.dst = "south" -> d.month \notin 4..9

utcoffset(zone, d) == zone.std + (IF IsDst(zone, d) THEN 3600 ELSE 0)

\* since_epoch: time.mktime(epoch_date.timetuple())
since_epoch(zone, d) ==
    (DaysBeforeYear(d.year) + DaysBeforeMonth(d.year, d.month) + d.day - 1) * 86400
    + d.hour * 3600 + d.minute * 60 + d.second - utcoffset(zone, d)

datetime(y, m, dd) ==
    [year |-> y, month |-> m, day |-> dd, hour |-> 0, minute |-> 0, second |-> 0]

Mixed(whole, num, den) ==
    [whole |-> whole + (num \div den), num |-> num % den, den |-> den]

yearDurationCommon(zone, year) == 365 * 86400

yearDuration(zone, year) ==
    since_epoch(zone, datetime(year + 1, 1, 1)) - since_epoch(zone, datetime(year, 1, 1))

yearElapsed(zone, d) ==
    since_epoch(zone, d) - since_epoch(zone, datetime(d.year, 1, 1))

to_year_fraction(zone, d) ==
    Mixed(d.year, yearElapsed(zone, d), yearDuration(zone, d.year))

(***************************************************************************)
(* Inputs.                                                                 *)
(***************************************************************************)
MaxChunks == 5

Chunks == {<<"+">>, <<"-">>, <<"1", "2">>, <<"0", "6", "5">>, <<".", "5">>,
           <<"3">>, <<"x">>}

RECURSIVE ChunkStrings(_)
ChunkStrings(k) ==
    IF k = 0 THEN {<<>>}
    ELSE LET shorter == ChunkStrings(k - 1) IN
         shorter \cup {s \o c : s \in shorter, c \in Chunks}

Ex1 == <<"+", "1", "2", "3", "4", "5", "6", ".", "0", "0",
         "-", "0", "6", "5", "4", "3", "2", "1", ".", "0", "0">>
Ex2 == <<"+", "1", "2", ".", "5", "-", "0", "6", "5", ".", "7", "5">>
Ex3 == <<"1", "2", ".", "5", "-", "0", "6", "5", ".", "7", "5">>
Ex4 == <<"-", "3", "3", "5", "6", ".", "7", "+", "1", "5", "1", "1", "0", ".", "6",
         "+", "2", "1">>
Ex5 == <<"+", "1", "2", "3", "4", ".", "5", "-", "0", "6", "5", "4", "3", ".", "2", "5",
         "-", "0", ".", "5">>

Samples == {Ex1, Ex2, Ex3, Ex4, Ex5, Ex2 \o <<" ">>, <<" ">> \o Ex2, Ex2 \o <<"\n">>}

ParseInputs == ChunkStrings(MaxChunks) \cup Samples

MaxYears == 2

Years == 2023..(2023 + MaxYears - 1)

MonthDays == {<<1, 1>>, <<2, 28>>, <<2, 29>>, <<3, 1>>, <<7, 1>>, <<11, 5>>, <<12, 31>>}

Clocks == {<<0, 0, 0>>, <<12, 30, 15>>, <<23, 59, 59>>}

Dates == {[year |-> y, month |-> md[1], day |-> md[2],
           hour |-> c[1], minute |-> c[2], second |-> c[3]] :
          y \in Years, md \in MonthDays, c \in Clocks}

ValidDates == {d \in Dates : d.day <= DaysInMonth(d.year, d.month)}

Zones == {[std |-> 0, dst |-> "none"], [std |-> 36000, dst |-> "south"],
          [std |-> 3600, dst |-> "north"], [std |-> -18000, dst |-> "none"]}

(***************************************************************************)
(* geo_mag.calculate, the external declination model.  It is known only    *)
(* by its interface, so it is one of two stand-ins: "fixed" answers by     *)
(* position alone, "timed" also by the time given.  Both refuse a time     *)
(* past the life span of the coefficient file.  A declination is a whole   *)
(* number of thousandths of a degree.  The result carries the arguments of *)
(* the call, as the result object of the model does.                       *)
(***************************************************************************)
LifespanEnd == 2030

Models == {"fixed", "timed"}

Ex1Lat == Rat(12 * 3600 + 34 * 60 + 56, 3600)
Ex1Lon == Rat(-(65 * 3600 + 43 * 60 + 21), 3600)

BaseDeclination(a) ==
    IF a.glat = Ex1Lat /\ a.glon = Ex1Lon THEN 11230
    ELSE IF a.alt.num # 0 THEN 7346
    ELSE IF a.glat.num < 0 THEN -4
    ELSE 2125

BeyondLifespan(t) == t.whole > LifespanEnd \/ (t.whole = LifespanEnd /\ t.num > 0)

calculate(model, a) ==
    IF BeyondLifespan(a.time) THEN [args |-> a, raised |-> "ValueError"]
    ELSE [args |-> a,
          d |-> BaseDeclination(a)
                + (IF model = "timed" THEN 10 * (a.time.num % 3) ELSE 0)]

(***************************************************************************)
(* get_mag_var and get_mag_var_for_iso6709.  They return the whole result  *)
(* of the model; the caller takes its field d.                             *)
(***************************************************************************)
LocalZone == [std |-> 36000, dst |-> "south"]

\* datetime.datetime.today() when the clock shows "clock".
today(clock) ==
    IF clock = 0
    THEN [year |-> LifespanEnd - 1, month |-> 12, day |-> 31,
          hour |-> 23, minute |-> 59, second |-> 59]
    ELSE [year |-> LifespanEnd, month |-> 1, day |-> 1,
          hour |-> 0, minute |-> 0, second |-> clock - 1]

get_mag_var_stale(model, latitude, longitude, altitude, clock) ==
    calculate(model, [glat |-> latitude, glon |-> longitude, alt |-> altitude,
                      time |-> to_year_fraction(LocalZone, today(0))])

get_mag_var(model, latitude, longitude, altitude, clock) ==
    calculate(model, [glat |-> latitude, glon |-> longitude, alt |-> altitude,
                      time |-> to_year_fraction(LocalZone, today(clock))])

\* "alt = 0 if alt is None else alt"
AltitudeOrZero(alt) == IF alt = NoneFloat THEN Rat(0, 1) ELSE alt

get_mag_var_for_iso6709(model, coord, clock) ==
    LET c == parse_iso6709(coord) IN
    IF Raised(c) THEN c
    ELSE get_mag_var(model, c.latitude, c.longitude,
                     AltitudeOrZero(c.altitude), clock)

(***************************************************************************)
(* Floats written to the document.  A float here is [neg, mag]: its sign   *)
(* (so that -0.0 is told from 0.0) and its size in thousandths, or in      *)
(* hundredths once rounded.  A tie of round() is decided as for a float    *)
(* that holds the tie exactly: to the even neighbour.                      *)
(***************************************************************************)
FloatOfThousandths(d) == [neg |-> d < 0, mag |-> Abs(d)]

SameSign(x) == x

\* "... * -1"
TimesMinusOne(x) == [neg |-> ~x.neg, mag |-> x.mag]

\* round(x, 2)
round2(x) ==
    LET q == x.mag \div 10
        r == x.mag % 10
    IN  [neg |-> x.neg,
         mag |-> IF r < 5 THEN q
                 ELSE IF r > 5 THEN q + 1
                 ELSE IF q % 2 = 0 THEN q ELSE q + 1]

DigitChar(k) == <<"0", "1", "2", "3", "4", "5", "6", "7", "8", "9">>[k + 1]

RECURSIVE IntChars(_)
IntChars(n) ==
    IF n < 10 THEN <<DigitChar(n)>>
    ELSE IntChars(n \div 10) \o <<DigitChar(n % 10)>>

\* str(x) of a float that is a whole number of hundredths.
str(x) ==
    (IF x.neg THEN <<"-">> ELSE <<>>)
    \o IntChars(x.mag \div 100) \o <<".">>
    \o (IF x.mag % 10 = 0 THEN <<DigitChar((x.mag % 100) \div 10)>>
        ELSE <<DigitChar((x.mag % 100) \div 10), DigitChar(x.mag % 10)>>)

(***************************************************************************)
(* The element tree.  A document is its elements below the root, numbered  *)
(* in document order: tag[k], parent[k] (0 is the root) and attrib[k], a   *)
(* function from the attribute names to a string or None.                  *)
(***************************************************************************)
Tags == {"Position", "Group"}
Keys == {"Name", "DefaultCenter", "DefaultRange", "MagneticVariation", "Rotation"}

Size(doc) == Len(doc.tag)

Iota(n) == [k \in 1..n |-> k]

RECURSIVE IsUnder(_, _, _)
IsUnder(doc, k, e) ==
    k # 0 /\ (doc.parent[k] = e \/ IsUnder(doc, doc.parent[k], e))

\* element.iter(tag) without the element itself: every descendant.
findall_deep(doc, e, tag) ==
    LET Hit(k) == IsUnder(doc, k, e) /\ doc.tag[k] = tag
    IN  SelectSeq(Iota(Size(doc)), Hit)

\* element.findall(tag): the children of e with that tag, in document order.
findall(doc, e, tag) ==
    LET Hit(k) == doc.parent[k] = e /\ doc.tag[k] = tag
    IN  SelectSeq(Iota(Size(doc)), Hit)

\* group_positions after the loop over root.findall('Group').
RECURSIVE extend_all(_, _)
extend_all(doc, groups) ==
    IF groups = <<>> THEN <<>>
    ELSE findall(doc, Head(groups), "Position") \o extend_all(doc, Tail(groups))

collect_positions(doc) ==
    findall(doc, 0, "Position") \o extend_all(doc, findall(doc, 0, "Group"))

set_fresh(attrib, key, value) ==
    [k \in Keys |-> IF k = key THEN value ELSE None]

\* Element.set(key, value)
set(attrib, key, value) == [attrib EXCEPT ![key] = value]

Hundredths(cs) == LET q == float(cs) IN q.num * (100 \div q.den)

annotate_accumulate(attrib, magnetic_variation) ==
    LET new == round2(magnetic_variation)
        old == IF attrib["MagneticVariation"] = None THEN 0
               ELSE Hundredths(attrib["MagneticVariation"])
        sum == old + (IF new.neg THEN -new.mag ELSE new.mag)
    IN  set(set(attrib, "MagneticVariation",
                str([neg |-> sum < 0 \/ (sum = 0 /\ new.neg), mag |-> Abs(sum)])),
            "Rotation", <<"0">>)

\* The two position.set calls of the loop body.
annotate(attrib, magnetic_variation) ==
    set(set(attrib, "MagneticVariation", str(round2(magnetic_variation))),
        "Rotation", <<"0">>)

(***************************************************************************)
(* The documents modify_positions_xml is run on.                           *)
(***************************************************************************)
MaxNodes == 3
MaxRuns == 2
MaxClock == 2

\* parent[k] is the element before k or one of its ancestors, or the root.
DocumentOrder(n, parent) ==
    \A k \in 1..n :
        /\ parent[k] < k
        /\ k > 1 => \/ parent[k] = k - 1
                    \/ parent[k] = 0
                    \/ IsUnder([parent |-> parent], k - 1, parent[k])

Shapes(n) == {parent \in [1..n -> 0..(n - 1)] : DocumentOrder(n, parent)}

Centers == {Ex1, Ex3, Ex4, None}

Annotated == <<"9", ".", "9", "9">>

\* An element of the file: old is None where it has not been annotated yet.
Attribs(tag, center, old) ==
    [k \in Keys |->
        CASE k = "Name" -> <<"S", "Y">>
          [] k = "DefaultCenter" -> center
          [] k = "DefaultRange" -> <<"5", "0">>
          [] k = "MagneticVariation" -> old
          [] k = "Rotation" -> IF old = None THEN None ELSE <<"9", "0">>]

\* What an element can be: only a Position carries a DefaultCenter, and the
\* Positions at Ex4 have been annotated before.
NodeKinds ==
    {[tag |-> "Group", center |-> None, old |-> None]}
    \cup {[tag |-> "Position", center |-> c,
           old |-> IF c = Ex4 THEN Annotated ELSE None] : c \in Centers}

Document(parent, kinds) ==
    [tag |-> [k \in DOMAIN kinds |-> kinds[k].tag],
     parent |-> parent,
     attrib |-> [k \in DOMAIN kinds |-> Attribs(kinds[k].tag, kinds[k].center, kinds[k].old)]]

NoDocument == [tag |-> <<>>, parent |-> <<>>, attrib |-> <<>>]

(***************************************************************************)
(* modify_positions_xml                                                    *)
(***************************************************************************)
NotCalled == [pending |-> TRUE]
NoDate == [year |-> 0]
NoZone == [std |-> 0, dst |-> "none"]

ParseIdle == coord_str = None /\ result = NotCalled
YearIdle == date = NoDate /\ tz = NoZone /\ year_fraction = NotCalled

DocIdle ==
    /\ file = NoDocument /\ tree = NoDocument /\ all_positions = <<>>
    /\ i = 0 /\ pc = "idle" /\ run = 0 /\ now = 0 /\ geo_mag = "fixed"
    /\ calls = <<>> /\ history = <<>>

Init ==
    /\ \E n \in 1..MaxNodes :
           \E parent \in Shapes(n), kinds \in [1..n -> NodeKinds] :
               file = Document(parent, kinds)
    /\ tree = NoDocument
    /\ all_positions = <<>>
    /\ i = 0
    /\ pc = "start"
    /\ run = 1
    /\ now = 0
    /\ geo_mag \in Models
    /\ calls = <<>>
    /\ history = <<>>
    /\ ParseIdle
    /\ YearIdle

\* ET.parse, getroot and the collection of all_positions.
Parse ==
    /\ pc = "start"
    /\ tree' = file
    /\ all_positions' = collect_positions(file)
    /\ i' = 1
    /\ calls' = [k \in 1..Size(file) |-> NotCalled]
    /\ pc' = "loop"
    /\ UNCHANGED <<file, run, now, geo_mag, history, parseVars, yearVars>>

\* One turn of "for position in all_positions"; an exception ends the run.
Annotate ==
    /\ pc = "loop"
    /\ i <= Len(all_positions)
    /\ LET position == all_positions[i]
           location == tree.attrib[position]["DefaultCenter"]
           r == get_mag_var_for_iso6709(geo_mag, location, now)
       IN  /\ calls' = [calls EXCEPT ![position] = r @@ [clock |-> now]]
           /\ IF Raised(r)
              THEN /\ pc' = "failed"
                   /\ UNCHANGED <<tree, i>>
              ELSE /\ tree' = [tree EXCEPT !.attrib[position] =
                                  annotate(@, TimesMinusOne(FloatOfThousandths(r.d)))]
                   /\ i' = i + 1
                   /\ pc' = "loop"
    /\ UNCHANGED <<file, all_positions, run, now, geo_mag, history, parseVars, yearVars>>

WriteInLoop(idx, positions) == TRUE

\* tree.write stands after the for loop, not in its body.
LoopOver(idx, positions) == idx > Len(positions)

\* tree.write(input_file, ...)
Write ==
    /\ pc = "loop"
    /\ LoopOver(i, all_positions)
    /\ file' = tree
    /\ history' = Append(history, tree)
    /\ pc' = "done"
    /\ UNCHANGED <<tree, all_positions, i, run, now, geo_mag, calls, parseVars, yearVars>>

\* The script is started again on the file it has written.
Rerun ==
    /\ pc = "done"
    /\ run < MaxRuns
    /\ run' = run + 1
    /\ pc' = "start"
    /\ UNCHANGED <<file, tree, all_positions, i, now, geo_mag, calls, history,
                   parseVars, yearVars>>

\* A second passes while the loop runs.
Tick ==
    /\ pc = "loop"
    /\ i <= Len(all_positions)
    /\ now < MaxClock
    /\ now' = now + 1
    /\ UNCHANGED <<file, tree, all_positions, i, pc, run, geo_mag, calls, history,
                   parseVars, yearVars>>

Next == Parse \/ Annotate \/ Write \/ Rerun \/ Tick

Spec == Init /\ [][Next]_vars

(***************************************************************************)
(* The two functions as state machines: an argument, then the call.        *)
(***************************************************************************)
InitParse ==
    /\ coord_str \in ParseInputs
    /\ result = NotCalled
    /\ YearIdle
    /\ DocIdle

CallParse ==
    /\ result = NotCalled
    /\ result' = parse_iso6709(coord_str)
    /\ UNCHANGED <<coord_str, yearVars, docVars>>

SpecParse == InitParse /\ [][CallParse]_vars

InitYear ==
    /\ date \in ValidDates
    /\ tz \in Zones
    /\ year_fraction = NotCalled
    /\ ParseIdle
    /\ DocIdle

CallYearFraction ==
    /\ year_fraction = NotCalled
    /\ date # NoDate
    /\ year_fraction' = to_year_fraction(tz, date)
    /\ UNCHANGED <<date, tz, parseVars, docVars>>

SpecYear == InitYear /\ [][CallYearFraction]_vars

(***************************************************************************)
(* Properties of modify_positions_xml.                                     *)
(***************************************************************************)
Selected == {all_positions[j] : j \in 1..Len(all_positions)}

Done(k) == "d" \in DOMAIN calls[k]

HasAltitude(center) == center \in {Ex4, Ex5}

\* The coordinates of the documents' DefaultCenter values, worked out by hand.
HandParsed(center) ==
    CASE center = Ex1 -> [glat |-> Ex1Lat, glon |-> Ex1Lon, alt |-> Rat(0, 1)]
      [] center = Ex4 -> [glat |-> Rat(-(33 * 600 + 567), 600),
                          glon |-> Rat(151 * 600 + 106, 600),
                          alt |-> Rat(21, 1)]

\* The numeral cs is the float -d/1000 rounded to hundredths.
IsNegationRounded(cs, d) ==
    /\ cs # None
    /\ float(cs).den \in {1, 2, 4, 5, 10, 20, 25, 50, 100}
    /\ Abs(10 * Hundredths(cs) + d) <= 5

\* C1: tree.write is reached, and the file rewritten, only when every
\* selected record has been annotated without an exception; a run that
\* fails has written nothing, however many records it had already changed.
C1_WriteOnlyAfterAll ==
    [][(file' # file \/ history' # history \/ pc' = "done") =>
          /\ pc = "loop"
          /\ i = Len(all_positions) + 1
          /\ \A k \in Selected : Done(k) /\ tree.attrib[k]["Rotation"] = <<"0">>
          /\ file' = tree]_vars
    /\ [](pc = "failed" => Len(history) = run - 1)

C1_Witness ==
    /\ pc = "failed"
    /\ i > 1
    /\ tree # file
    /\ history = <<>>
    /\ \E k \in Selected : "args" \in DOMAIN calls[k] /\ Raised(calls[k])

\* C2: after a successful run every selected record has Rotation "0" and a
\* MagneticVariation that is the negated declination of the model call made
\* for it, rounded to 2 places; the call was made with the record's parsed
\* latitude and longitude and with altitude 0 where the string has none.
C2_Annotated ==
    pc = "done" =>
        \A k \in Selected :
            /\ Done(k)
            /\ file.attrib[k]["Rotation"] = <<"0">>
            /\ IsNegationRounded(file.attrib[k]["MagneticVariation"], calls[k].d)
            /\ LET hand == HandParsed(file.attrib[k]["DefaultCenter"]) IN
               /\ calls[k].args.glat = hand.glat
               /\ calls[k].args.glon = hand.glon
               /\ calls[k].args.alt = hand.alt
            /\ (file.attrib[k]["DefaultCenter"] = Ex1 /\ calls[k].d = 11230)
                  => file.attrib[k]["MagneticVariation"]
                         = <<"-", "1", "1", ".", "2", "3">>

C2_Witness ==
    /\ pc = "done"
    /\ \E j, k \in Selected :
           /\ HasAltitude(file.attrib[j]["DefaultCenter"])
           /\ ~HasAltitude(file.attrib[k]["DefaultCenter"])
           /\ file.attrib[k]["MagneticVariation"] = <<"-", "1", "1", ".", "2", "3">>

IsSelectable(doc, k) ==
    /\ doc.tag[k] = "Position"
    /\ \/ doc.parent[k] = 0
       \/ /\ doc.parent[k] # 0
          /\ doc.tag[doc.parent[k]] = "Group"
          /\ doc.parent[doc.parent[k]] = 0

C4_Frame ==
    /\ pc \in {"loop", "failed"} =>
           /\ tree.tag = file.tag
           /\ tree.parent = file.parent
           /\ \A k \in 1..Size(file) : \A key \in Keys :
                  (k \notin Selected \/ key \notin {"MagneticVariation", "Rotation"})
                      => tree.attrib[k][key] = file.attrib[k][key]
    /\ pc = "done" => file = tree /\ history[Len(history)] = tree

C4_Witness ==
    /\ pc = "loop"
    /\ i > Len(all_positions)
    /\ i > 1
    /\ tree # file
    /\ \E k \in 1..Size(tree) :
           /\ k \notin Selected
           /\ tree.tag[k] = "Position"
           /\ tree.attrib[k]["MagneticVariation"] = Annotated

\* C5 as stated: one decimal year serves every model call of a run, and two
\* records with the same DefaultCenter get the same MagneticVariation.
C5_OneYearPerRun ==
    pc = "done" =>
        \A j, k \in Selected :
            /\ calls[j].args.time = calls[k].args.time
            /\ file.attrib[j]["DefaultCenter"] = file.attrib[k]["DefaultCenter"]
                   => file.attrib[j]["MagneticVariation"]
                          = file.attrib[k]["MagneticVariation"]

\* C5 amended: the decimal year of a record's model call is that of the
\* clock at the moment of that call; two records with the same
\* DefaultCenter get the same MagneticVariation when the clock did not move
\* between their calls.
C5_YearPerCall ==
    pc \in {"loop", "done", "failed"} =>
        /\ \A k \in Selected :
               "args" \in DOMAIN calls[k] =>
                   calls[k].args.time = to_year_fraction(LocalZone, today(calls[k].clock))
        /\ \A j, k \in Selected :
               (/\ Done(j) /\ Done(k)
                /\ calls[j].clock = calls[k].clock
                /\ tree.attrib[j]["DefaultCenter"] = tree.attrib[k]["DefaultCenter"])
                   => tree.attrib[j]["MagneticVariation"]
                          = tree.attrib[k]["MagneticVariation"]

C5_Witness ==
    /\ pc = "done"
    /\ \E j, k \in Selected :
           /\ file.attrib[j]["DefaultCenter"] = file.attrib[k]["DefaultCenter"]
           /\ calls[j].args.time # calls[k].args.time
           /\ file.attrib[j]["MagneticVariation"] # file.attrib[k]["MagneticVariation"]

\* C9: with a model that answers by position alone, the document written by
\* a second run has the same MagneticVariation and Rotation on every record
\* as the document written by the first.
C9_SecondRunSame ==
    (geo_mag = "fixed" /\ Len(history) >= 2) =>
        \A k \in 1..Size(history[1]) :
            /\ history[2].attrib[k]["MagneticVariation"]
                   = history[1].attrib[k]["MagneticVariation"]
            /\ history[2].attrib[k]["Rotation"] = history[1].attrib[k]["Rotation"]

C9_Witness ==
    /\ geo_mag = "fixed"
    /\ Len(history) = 2
    /\ now > 0
    /\ Len(all_positions) >= 2
    /\ \E k \in Selected : history[1].attrib[k]["MagneticVariation"] # None

(***************************************************************************)
(* Properties of parse_iso6709.  The grammar is written here as the set of *)
(* strings that can be cut into its fields, with no order of trial.        *)
(***************************************************************************)
AllDigits(s, a, b) == \A j \in a..(b - 1) : s[j] \in Digits

\* s[a..b-1] is w digits, then perhaps "." and one digit or more.
IsNumber(s, a, b, w) ==
    /\ b - a >= w
    /\ AllDigits(s, a, a + w)
    /\ \/ b = a + w
       \/ b >= a + w + 2 /\ s[a + w] = "." /\ AllDigits(s, a + w + 1, b)

IsOptional(s, a, b, w) == a = b \/ IsNumber(s, a, b, w)

\* s[a..b-1] is a sign, digits, then perhaps "." and digits.
IsAltitude(s, a, b) ==
    /\ b - a >= 2
    /\ s[a] \in Signs
    /\ \E m \in (a + 2)..b :
           /\ AllDigits(s, a + 1, m)
           /\ m = b \/ (b >= m + 2 /\ s[m] = "." /\ AllDigits(s, m + 1, b))

IsAxis(s, a, b, w) ==
    /\ b - a >= w + 1
    /\ s[a] \in Signs
    /\ \E p \in (a + 1 + w)..b :
           /\ IsNumber(s, a + 1, p, w)
           /\ \E q \in p..b : IsOptional(s, p, q, 2) /\ IsOptional(s, q, b, 2)

InGrammar(s) ==
    LET n == Len(s) IN
    \E lon \in 1..(n + 1) : \E alt \in lon..(n + 1) :
        /\ IsAxis(s, 1, lon, 2)
        /\ IsAxis(s, lon, alt, 3)
        /\ alt = n + 1 \/ IsAltitude(s, alt, n + 1)

Accepted == result # NotCalled /\ ~Raised(result)

\* C6: a string outside the grammar raises the format error and gives no
\* result: so does a string whose first character is no sign, one with a
\* character that is no digit, sign or point, one that is a coordinate
\* with characters put before it, and one that is a coordinate followed
\* by a character no coordinate can continue with; an accepted string has
\* 2 digits after the latitude sign and 3 after the longitude sign.
C6_RejectsOutsideGrammar ==
    result # NotCalled =>
        LET s == coord_str
            n == Len(s)
        IN  /\ ~InGrammar(s) => result = ValueError
            /\ (n = 0 \/ s[1] \notin Signs) => result = ValueError
            /\ (\E j \in 1..n : s[j] \notin Digits \cup Signs \cup {"."})
                   => result = ValueError
            /\ (\E j \in 2..n : InGrammar(SubSeq(s, j, n))) => result = ValueError
            /\ (\E j \in 1..(n - 1) :
                    /\ InGrammar(SubSeq(s, 1, j))
                    /\ s[j + 1] \notin Digits \cup Signs \cup {"."})
                   => result = ValueError
            /\ ~Raised(result) =>
                   /\ AllDigits(s, 2, 4)
                   /\ \E j \in 4..n : s[j] \in Signs /\ AllDigits(s, j + 1, j + 4)

C6_Witness ==
    /\ result = ValueError
    /\ \E j \in 1..(Len(coord_str) - 1) : InGrammar(SubSeq(coord_str, 1, j))
    /\ \A j \in 1..Len(coord_str) : coord_str[j] \in Digits \cup Signs \cup {"."}

Present(g) == g # None

\* sign * (deg + min/60 + sec/3600) as one fraction, absent fields being 0.
ClaimedValue(sign, deg, min, sec) ==
    LET dg == float(deg)
        mn == IF Present(min) THEN float(min) ELSE Rat(0, 1)
        sc == IF Present(min) /\ Present(sec) THEN float(sec) ELSE Rat(0, 1)
    IN  Rat((IF sign = <<"-">> THEN -1 ELSE 1)
            * (3600 * dg.num * mn.den * sc.den + 60 * mn.num * dg.den * sc.den
               + sc.num * dg.den * mn.den),
            3600 * dg.den * mn.den * sc.den)

\* Both are fractions in lowest terms with a positive denominator.
SameNumber(a, b) == a = b

IntegerDigits(g) == IF DotAt(g) = 0 THEN Len(g) ELSE DotAt(g) - 1

\* C7: an accepted string is decoded axis by axis from its captured groups,
\* 2 or 3 digits of degrees and 2 of minutes and of seconds, by the rule
\* sign * degrees, sign * (degrees + minutes/60) or
\* sign * (degrees + minutes/60 + seconds/3600); the two strings of the
\* specification give the values stated there.
C7_Decoding ==
    Accepted =>
        LET m == re_fullmatch(coord_str) IN
        /\ SameNumber(result.latitude,
                      ClaimedValue(m.lat_sign, m.lat_deg, m.lat_min, m.lat_sec))
        /\ SameNumber(result.longitude,
                      ClaimedValue(m.lon_sign, m.lon_deg, m.lon_min, m.lon_sec))
        /\ IntegerDigits(m.lat_deg) = 2 /\ IntegerDigits(m.lon_deg) = 3
        /\ \A g \in {m.lat_min, m.lat_sec, m.lon_min, m.lon_sec} :
               Present(g) => IntegerDigits(g) = 2
        /\ coord_str = m.lat_sign \o m.lat_deg
                       \o (IF Present(m.lat_min) THEN m.lat_min ELSE <<>>)
                       \o (IF Present(m.lat_sec) THEN m.lat_sec ELSE <<>>)
                       \o m.lon_sign \o m.lon_deg
                       \o (IF Present(m.lon_min) THEN m.lon_min ELSE <<>>)
                       \o (IF Present(m.lon_sec) THEN m.lon_sec ELSE <<>>)
                       \o (IF Present(m.alt) THEN m.alt ELSE <<>>)
        /\ coord_str = Ex1 =>
               result = [latitude |-> Ex1Lat, longitude |-> Ex1Lon,
                         altitude |-> NoneFloat]
        /\ coord_str = Ex2 =>
               result = [latitude |-> Rat(25, 2), longitude |-> Rat(-263, 4),
                         altitude |-> NoneFloat]

C7_Witness ==
    /\ Accepted
    /\ coord_str = Ex1
    /\ result.latitude = Ex1Lat

Tier(min, sec) == IF ~Present(min) THEN 1 ELSE IF ~Present(sec) THEN 2 ELSE 3

\* C8: a string is accepted only if latitude and longitude are written in
\* the same one of the three precision tiers.
C8_OneTier ==
    Accepted =>
        LET m == re_fullmatch(coord_str) IN
        Tier(m.lat_min, m.lat_sec) = Tier(m.lon_min, m.lon_sec)

(***************************************************************************)
(* Properties of to_year_fraction.                                         *)
(***************************************************************************)
\* Seconds from local midnight of January 1 to d, counted on the calendar.
SecondsIntoYear(zone, d) ==
    (DaysBeforeMonth(d.year, d.month) + d.day - 1) * 86400
    + d.hour * 3600 + d.minute * 60 + d.second
    - (IF IsDst(zone, d) /\ ~IsDst(zone, datetime(d.year, 1, 1)) THEN 3600 ELSE 0)
    + (IF ~IsDst(zone, d) /\ IsDst(zone, datetime(d.year, 1, 1)) THEN 3600 ELSE 0)

\* C10: to_year_fraction(d) is d.year + elapsed/duration with elapsed the
\* seconds since local midnight of January 1 of d.year and duration the
\* seconds of that year, so it is at least d.year and less than d.year + 1:
\* d.year exactly at January 1 00:00:00, below d.year + 1 at
\* December 31 23:59:59.
C10_YearFraction ==
    year_fraction # NotCalled =>
        /\ year_fraction.whole = date.year
        /\ year_fraction.num = SecondsIntoYear(tz, date)
        /\ year_fraction.den = (IF IsLeap(date.year) THEN 366 ELSE 365) * 86400
        /\ year_fraction.num >= 0 /\ year_fraction.num < year_fraction.den
        /\ (date.month = 1 /\ date.day = 1 /\ date.hour = 0 /\ date.minute = 0
            /\ date.second = 0) => year_fraction.num = 0
        /\ (date.month = 12 /\ date.day = 31 /\ date.hour = 23 /\ date.minute = 59
            /\ date.second = 59) => year_fraction.den - year_fraction.num = 1

C10_Witness ==
    /\ year_fraction # NotCalled
    /\ IsLeap(date.year)
    /\ date.month = 12 /\ date.day = 31 /\ date.hour = 23
    /\ tz.dst = "south"
    /\ year_fraction.whole = date.year

====
